---- MODULE Spec2Model ----
(***************************************************************************)
(* Model of the Server class (include/Server.hpp, src/Server.cpp): one     *)
(* listener object, the descriptor table and port table of the operating   *)
(* system it talks to, and the clients that connect to it.                 *)
(*                                                                         *)
(* Spec: one thread of control calls start(), run(), stop() and the        *)
(* destructor one after the other; stop() can also arrive out of band      *)
(* while run() is between two accept calls.  start() and run() are         *)
(* modelled statement by statement (pc), stop() as one step.               *)
(*                                                                         *)
(* MainSpec: the program of main.cpp.  The thread of main() constructs the *)
(* listener, calls start() and run() and returns; a second thread calls    *)
(* stop(), statement by statement, at any moment.                          *)
(***************************************************************************)
EXTENDS Integers, Sequences, FiniteSets, TLC

(***************************************************************************)
(* Bounds of the model.                                                    *)
(***************************************************************************)
MaxFd == 1          \* descriptors 0..MaxFd can be open at the same time
MaxClients == 2     \* clients that ever connect when the ports are free
FewClients == 1     \* clients that ever connect in the other port situations

(***************************************************************************)
(* Program constants.                                                      *)
(***************************************************************************)
DefaultPort == 8080         \* main.cpp:13  Server server(8080)
DefaultBacklog == 10        \* Server.hpp:18
MaxAttempts == 10           \* Server.cpp:71  if (attempts >= 10)
CandidateSpan == 10         \* Server.cpp:76  rand() % 10
InvalidSocket == -1         \* Server.cpp:14 and :142

\* htons takes a uint16_t: the int port is truncated to 16 bits
\* (the byte order of the result does not matter to which port is meant).
Htons(p) == p % 65536

\* Ports a listener is constructed with: the default of main.cpp and one
\* whose candidates P+k leave the 16-bit range (and pass through port 0).
RequestPorts == {DefaultPort, 65530}
Backlogs == {DefaultBacklog}

\* The port the system assigns to a bind on port 0.
EphemeralPorts == {32768}

Fds == 0..MaxFd
Clients == 1..MaxClients

\* What a client may have written on its connection before it is handled.
Payloads == {<< >>, <<"G", "E", "T", " ", "/", "\r", "\n">>}

\* The canned response of handleClient, byte by byte.
StatusLine ==
    <<"H","T","T","P","/","1",".","1"," ","2","0","0"," ","O","K","\r","\n">>
ContentType ==
    <<"C","o","n","t","e","n","t","-","T","y","p","e",":"," ",
      "t","e","x","t","/","p","l","a","i","n","\r","\n">>
ContentLength ==
    <<"C","o","n","t","e","n","t","-","L","e","n","g","t","h",":"," ",
      "1","3","\r","\n">>
Body == <<"H","e","l","l","o",","," ","W","o","r","l","d","!">>
Response == StatusLine \o ContentType \o ContentLength \o <<"\r","\n">> \o Body

\* the length, had the terminating byte been taken off
StrlenLessOne(s) == Len(s) - 1

\* strlen(response)
Strlen(s) == Len(s)

\* Return values of send(fd, buf, len, 0): -1, a short count, or len.
SendResults(len) == {-1, len - 1, len}

VARIABLES
    alive,          \* the Server object exists (constructed, not destroyed)
    m_serverSocket, \* Server.hpp:79
    m_port,         \* Server.hpp:80
    m_actualPort,   \* Server.hpp:81
    m_backlog,      \* Server.hpp:82
    m_running,      \* Server.hpp:83
    sin_port,       \* m_serverAddress.sin_port, Server.hpp:84
    attempts,       \* local of bindSocket
    clientSocket,   \* local of run / parameter of handleClient
    pc,             \* where the calling thread is
    fds,            \* descriptor table of the process
    extPorts,       \* ports held by other processes
    clients,        \* the clients' side of each connection
    closeCalls,     \* close() calls on a descriptor since it was handed out
    bindCalls,      \* bind() calls made by the current or last start()
    startRet,       \* what the last start() returned: "none", "true", "false"
    startFail,      \* the step at which the last start() failed, or "none"
    startFd,        \* what socket() returned to the current or last start()
    startPort,      \* the port bind() gave its socket (0: none)
    startOcc,       \* ports in use when the current or last start() began
    startFresh,     \* the current or last start() was the listener's first call
    lastOp,         \* the public operation called last
    stopPc,         \* where the second thread is in stop()
    orphan,         \* the socket a sleeping accept holds after its close
    exitCode,       \* what main() returned (nothing yet: << >>)
    caught,         \* main() returned from its catch clause
    life,           \* "created", "stopped", or "restarted" by a later start()
    runAfterStop,   \* the current or last run() was called on a stopped listener
    acceptLog,      \* what run() reported of the accept that just failed
    delivered,      \* the clients in the order accept returned them
    handled         \* the clients in the order handleClient sent to them

vars == <<alive, m_serverSocket, m_port, m_actualPort, m_backlog, m_running,
          sin_port, attempts, clientSocket, pc, fds, extPorts, clients,
          closeCalls, bindCalls, startRet, startFail, startFd,
          startPort, startOcc, startFresh, lastOp, stopPc, orphan,
          exitCode, caught, life, runAfterStop, acceptLog, delivered, handled>>

\* int getPort() const, Server.hpp:49-51
GetPort == m_actualPort

serverVars == <<m_serverSocket, m_port, m_actualPort, m_backlog, m_running,
                sin_port>>
\* what is recorded of a start(): until the next call, for good
callGhost == <<bindCalls, startFail, startOcc, startFresh>>
keptGhost == <<startRet, startFd, startPort>>
\* the ports of other processes, the second thread, the exit of main()
sideVars == <<extPorts, stopPc, orphan, exitCode, caught>>
lifeGhost == <<life, runAfterStop>>
orderGhost == <<delivered, handled>>

(***************************************************************************)
(* The operating system: descriptors and ports.                            *)
(***************************************************************************)
\* A descriptor: port is the port the socket is bound to (0: not bound),
\* queue the connections waiting for accept on a listening socket, client
\* the peer of an accepted connection (0: not a connection).
ClosedFd == [open |-> FALSE, port |-> 0, listening |-> FALSE,
             backlog |-> 0, queue |-> << >>, client |-> 0]
NewSocket == [open |-> TRUE, port |-> 0, listening |-> FALSE,
              backlog |-> 0, queue |-> << >>, client |-> 0]
ConnSocket(c) == [open |-> TRUE, port |-> 0, listening |-> FALSE,
                  backlog |-> 0, queue |-> << >>, client |-> c]

IsOpen(fd) == fd \in Fds /\ fds[fd].open
FreeFds == {fd \in Fds : ~fds[fd].open}
\* socket() and accept() hand out the lowest descriptor not in use
LowestFree == CHOOSE fd \in FreeFds : \A g \in FreeFds : fd <= g

\* ports bound by sockets of this process: those of its descriptors, and
\* the one of a socket that outlives its descriptor
OwnPorts ==
    {fds[fd].port : fd \in {g \in Fds : fds[g].open /\ fds[g].port # 0}}
    \cup (IF orphan.open /\ orphan.port # 0 THEN {orphan.port} ELSE {})
Occupied == extPorts \cup OwnPorts

\* The ports bind() may give the socket for the 16-bit port asked for when
\* the ports occ are in use; none: EADDRINUSE.  Port 0 asks for any free
\* ephemeral port.
BindPorts(occ, p16) ==
    IF p16 = 0 THEN EphemeralPorts \ occ
    ELSE IF p16 \in occ THEN {} ELSE {p16}

\* close, had it left the descriptor open
CloseFdNot(table, fd) == table

\* close(fd): closes the descriptor if it is open (EBADF otherwise)
CloseFd(table, fd) ==
    IF fd \in Fds /\ table[fd].open THEN [table EXCEPT ![fd] = ClosedFd]
    ELSE table
CountClose(cc, fd) ==
    IF fd \in Fds THEN [cc EXCEPT ![fd] = @ + 1] ELSE cc

\* What the peers see of close(fd): the peer of a connection sees it closed,
\* the connections still queued on a listening socket are reset.
InSeq(x, q) == \E i \in 1..Len(q) : q[i] = x
PeersAfterClose(cl, table, fd) ==
    IF fd \in Fds /\ table[fd].open
    THEN [c \in Clients |->
            IF table[fd].client = c THEN [cl[c] EXCEPT !.state = "closed"]
            ELSE IF InSeq(c, table[fd].queue)
                 THEN [cl[c] EXCEPT !.state = "reset"]
                 ELSE cl[c]]
    ELSE cl

(***************************************************************************)
(* Server::Server, Server.cpp:13-21                                        *)
(***************************************************************************)
\* the constructor, had it left m_actualPort at zero
ConstructedActualUnset(port, backlog) ==
    /\ alive = TRUE
    /\ m_serverSocket = InvalidSocket
    /\ m_port = port
    /\ m_actualPort = 0
    /\ m_backlog = backlog
    /\ m_running = FALSE
    /\ sin_port = 0

Constructed(port, backlog) ==
    /\ alive = TRUE
    /\ m_serverSocket = InvalidSocket
    /\ m_port = port
    /\ m_actualPort = port
    /\ m_backlog = backlog
    /\ m_running = FALSE
    /\ sin_port = 0

\* Situations of the candidate ports of requested port b: none of them is
\* held by another process, only b, all but the last, all of them, or all
\* but b.
Candidates(b, ks) == {Htons(b + i) : i \in ks} \ {0}
ExtChoices(b) ==
    {Candidates(b, 0..hi) :
        hi \in {-1, 0, CandidateSpan - 2, CandidateSpan - 1}}
    \cup {Candidates(b, 1..(CandidateSpan - 1))}

\* A client: sent is what it wrote, unread what of it the server has not
\* read, rcvd what it received; sends counts the send() calls on its
\* connection, sendLen and sendRet are the length and result of the last.
NewClient == [state |-> "new", sent |-> << >>, unread |-> << >>,
              rcvd |-> << >>, sends |-> 0, sendLen |-> 0, sendRet |-> 0]
\* the first n clients will connect, the others never do
Audience(n) ==
    [c \in Clients |->
        IF c <= n THEN NewClient ELSE [NewClient EXCEPT !.state = "absent"]]

\* What is not a member of the listener, before the first call.
Fresh ==
    /\ attempts = 0
    /\ clientSocket = InvalidSocket
    /\ pc = "idle"
    /\ fds = [fd \in Fds |-> ClosedFd]
    /\ closeCalls = [fd \in Fds |-> 0]
    /\ bindCalls = 0
    /\ startRet = "none"
    /\ startFail = "none"
    /\ startFd = InvalidSocket
    /\ startPort = 0
    /\ startOcc = {}
    /\ startFresh = FALSE
    /\ lastOp = "construct"
    /\ stopPc = "idle"
    /\ orphan = ClosedFd
    /\ exitCode = << >>
    /\ caught = FALSE
    /\ life = "created"
    /\ runAfterStop = FALSE
    /\ acceptLog = "none"
    /\ delivered = << >>
    /\ handled = << >>

\* The state after construction.  Either the candidate ports are in one of
\* the situations above and few clients come, or no port is held by another
\* process, the listener is the one of main.cpp and all the clients come.
Init ==
    /\ \/ \E port \in RequestPorts, backlog \in Backlogs :
             /\ Constructed(port, backlog)
             /\ extPorts \in ExtChoices(port)
             /\ clients = Audience(FewClients)
       \/ /\ Constructed(DefaultPort, DefaultBacklog)
          /\ extPorts = {}
          /\ clients = Audience(MaxClients)
    /\ Fresh

(***************************************************************************)
(* Server::start, Server.cpp:27-44, with createSocket, bindSocket and      *)
(* listenSocket inlined at their call sites.                               *)
(***************************************************************************)
StartCall ==
    /\ alive /\ pc = "idle"
    /\ pc' = "createSocket"
    /\ bindCalls' = 0
    /\ startRet' = "none"
    /\ startFail' = "none"
    /\ startFd' = InvalidSocket
    /\ startPort' = 0
    /\ startOcc' = Occupied
    /\ startFresh' = (lastOp = "construct")
    /\ lastOp' = "start"
    /\ life' = IF life = "stopped" THEN "restarted" ELSE life
    /\ runAfterStop' = FALSE
    /\ UNCHANGED <<acceptLog, orderGhost,
                   alive, serverVars, attempts, clientSocket, fds, sideVars,
                   clients, closeCalls>>

\* start() returns false
ReturnFalse(step) ==
    /\ pc' = "idle"
    /\ attempts' = 0
    /\ startRet' = "false"
    /\ startFail' = step

\* createSocket, line 47: socket() succeeds
SocketOk ==
    /\ pc = "createSocket"
    /\ FreeFds # {}
    /\ m_serverSocket' = LowestFree
    /\ fds' = [fds EXCEPT ![LowestFree] = NewSocket]
    /\ closeCalls' = [closeCalls EXCEPT ![LowestFree] = 0]
    /\ startFd' = LowestFree
    /\ pc' = "setsockopt"
    /\ UNCHANGED <<lifeGhost, acceptLog, orderGhost,
                   alive, m_port, m_actualPort, m_backlog, m_running,
                   sin_port, attempts, clientSocket, sideVars, clients,
                   callGhost, startRet, startPort, lastOp>>

\* createSocket, lines 47-51: socket() fails, start returns at line 29
SocketFail ==
    /\ pc = "createSocket"
    /\ m_serverSocket' = -1
    /\ ReturnFalse("socket")
    /\ UNCHANGED <<lifeGhost, acceptLog, orderGhost,
                   alive, m_port, m_actualPort, m_backlog, m_running,
                   sin_port, clientSocket, fds, sideVars, clients,
                   closeCalls, bindCalls, startOcc, startFresh, startFd,
                   startPort, lastOp>>

\* createSocket, lines 55-60, then bindSocket, lines 64-69
SetsockoptOk ==
    /\ pc = "setsockopt"
    /\ IsOpen(m_serverSocket)
    /\ sin_port' = Htons(m_port)
    /\ attempts' = 0
    /\ pc' = "bind"
    /\ UNCHANGED <<lifeGhost, acceptLog, orderGhost,
                   alive, m_serverSocket, m_port, m_actualPort, m_backlog,
                   m_running, clientSocket, fds, sideVars, clients,
                   closeCalls, callGhost, keptGhost, lastOp>>

\* createSocket, lines 55-58: setsockopt fails, start returns at line 29
SetsockoptFail ==
    /\ pc = "setsockopt"
    /\ ReturnFalse("setsockopt")
    /\ UNCHANGED <<lifeGhost, acceptLog, orderGhost,
                   alive, serverVars, clientSocket, fds, sideVars, clients,
                   closeCalls, bindCalls, startOcc, startFresh, startFd,
                   startPort, lastOp>>

\* the candidate, had the offset been taken off
CandidatePortBelow(k) == m_port - k

\* the candidate, had it been drawn from 1..10
CandidatePortFromOne(k) == m_port + k + 1

\* line 76: m_port + (rand() % 10), for the value k of rand() % 10
CandidatePort(k) == m_port + k

\* the test of line 71, had it been attempts > 10
ExhaustedLate(n) == n > MaxAttempts

\* line 71: if (attempts >= 10)
Exhausted(n) == n >= MaxAttempts

BindFails == ~IsOpen(m_serverSocket) \/ BindPorts(Occupied, sin_port) = {}

\* bindSocket, line 70: bind succeeds, lines 81-82
BindOk ==
    /\ pc = "bind"
    /\ IsOpen(m_serverSocket)
    /\ \E p \in BindPorts(Occupied, sin_port) :
          /\ fds' = [fds EXCEPT ![m_serverSocket].port = p]
          /\ startPort' = p
    /\ bindCalls' = bindCalls + 1
    /\ attempts' = 0
    /\ pc' = "listen"
    /\ UNCHANGED <<lifeGhost, acceptLog, orderGhost,
                   alive, serverVars, clientSocket, sideVars, clients,
                   closeCalls, startFail, startOcc, startFresh, startRet,
                   startFd, lastOp>>

\* bindSocket, lines 70-79: bind fails, another candidate port is drawn
BindRetry ==
    /\ pc = "bind"
    /\ BindFails
    /\ ~Exhausted(attempts)
    /\ \E k \in 0..(CandidateSpan - 1) :
          /\ m_actualPort' = CandidatePort(k)
          /\ sin_port' = Htons(CandidatePort(k))
    /\ attempts' = attempts + 1
    /\ bindCalls' = bindCalls + 1
    /\ UNCHANGED <<lifeGhost, acceptLog, orderGhost,
                   alive, m_serverSocket, m_port, m_backlog, m_running,
                   clientSocket, pc, fds, sideVars, clients, closeCalls,
                   startFail, startOcc, startFresh, keptGhost, lastOp>>

\* bindSocket, lines 70-73: bind fails and the attempts are used up;
\* start closes the socket and returns, lines 32-35
BindExhausted ==
    /\ pc = "bind"
    /\ BindFails
    /\ Exhausted(attempts)
    /\ bindCalls' = bindCalls + 1
    /\ fds' = CloseFd(fds, m_serverSocket)
    /\ closeCalls' = CountClose(closeCalls, m_serverSocket)
    /\ clients' = PeersAfterClose(clients, fds, m_serverSocket)
    /\ ReturnFalse("bind")
    /\ UNCHANGED <<lifeGhost, acceptLog, orderGhost,
                   alive, serverVars, clientSocket, sideVars, startOcc,
                   startFresh, startFd, startPort, lastOp>>

\* listenSocket, lines 86-92, then start lines 42-43
ListenOk ==
    /\ pc = "listen"
    /\ IsOpen(m_serverSocket)
    /\ fds' = [fds EXCEPT ![m_serverSocket].listening = TRUE,
                          ![m_serverSocket].backlog = m_backlog]
    /\ m_running' = TRUE
    /\ pc' = "idle"
    /\ startRet' = "true"
    /\ UNCHANGED <<lifeGhost, acceptLog, orderGhost,
                   alive, m_serverSocket, m_port, m_actualPort, m_backlog,
                   sin_port, attempts, clientSocket, sideVars, clients,
                   closeCalls, callGhost, startFd, startPort, lastOp>>

\* listenSocket, lines 86-89: listen fails; start closes the socket and
\* returns, lines 37-40
ListenFail ==
    /\ pc = "listen"
    /\ fds' = CloseFd(fds, m_serverSocket)
    /\ closeCalls' = CountClose(closeCalls, m_serverSocket)
    /\ clients' = PeersAfterClose(clients, fds, m_serverSocket)
    /\ ReturnFalse("listen")
    /\ UNCHANGED <<lifeGhost, acceptLog, orderGhost,
                   alive, serverVars, clientSocket, sideVars, bindCalls,
                   startOcc, startFresh, startFd, startPort, lastOp>>

(***************************************************************************)
(* Server::stop, Server.cpp:138-145                                        *)
(***************************************************************************)
RunPcs == {"loop", "accept", "handle", "close"}
\* lastOp after stop(): "stop again" when the call before it was stop() too
StopOps == {"stop", "stop again"}

\* a call other than start() ends the record of the last start()
ForgetStart ==
    /\ bindCalls' = 0
    /\ startFail' = "none"
    /\ startOcc' = {}
    /\ startFresh' = FALSE

\* stop(), had it left m_running alone (line 139)
StopBodyKeepsRunning ==
    /\ UNCHANGED m_running
    /\ IF m_serverSocket >= 0
       THEN /\ fds' = CloseFd(fds, m_serverSocket)
            /\ closeCalls' = CountClose(closeCalls, m_serverSocket)
            /\ clients' = PeersAfterClose(clients, fds, m_serverSocket)
            /\ m_serverSocket' = InvalidSocket
       ELSE UNCHANGED <<fds, closeCalls, clients, m_serverSocket>>

\* stop(), had it dropped the handle without closing it
StopBodyNoClose ==
    /\ m_running' = FALSE
    /\ m_serverSocket' = InvalidSocket
    /\ UNCHANGED <<fds, closeCalls, clients>>

\* stop(), had it not invalidated the handle (line 142)
StopBodyKeepsHandle ==
    /\ m_running' = FALSE
    /\ IF m_serverSocket >= 0
       THEN /\ fds' = CloseFd(fds, m_serverSocket)
            /\ closeCalls' = CountClose(closeCalls, m_serverSocket)
            /\ clients' = PeersAfterClose(clients, fds, m_serverSocket)
            /\ UNCHANGED m_serverSocket
       ELSE UNCHANGED <<fds, closeCalls, clients, m_serverSocket>>

\* the body of stop()
StopBody ==
    /\ m_running' = FALSE
    /\ IF m_serverSocket >= 0
       THEN /\ fds' = CloseFd(fds, m_serverSocket)
            /\ closeCalls' = CountClose(closeCalls, m_serverSocket)
            /\ clients' = PeersAfterClose(clients, fds, m_serverSocket)
            /\ m_serverSocket' = InvalidSocket
       ELSE UNCHANGED <<fds, closeCalls, clients, m_serverSocket>>

\* stop(), had it put the recorded port back to the requested one
StopResetsPort ==
    /\ alive
    /\ pc \in {"idle", "loop", "handle", "close"}
    /\ StopBody
    /\ ForgetStart
    /\ lastOp' = IF lastOp \in StopOps THEN "stop again" ELSE "stop"
    /\ life' = "stopped"
    /\ runAfterStop' = (pc # "idle" /\ runAfterStop)
    /\ m_actualPort' = m_port
    /\ UNCHANGED <<acceptLog, orderGhost,
                   alive, m_port, m_backlog, sin_port, attempts,
                   clientSocket, pc, sideVars, keptGhost>>

\* stop() called by the thread that owns the listener between two other
\* calls, or from outside while that thread is inside run() and not inside
\* accept (for a stop() that meets a thread inside accept, see AuxStopClose)
Stop ==
    /\ alive
    /\ pc \in {"idle", "loop", "handle", "close"}
    /\ StopBody
    /\ ForgetStart
    /\ lastOp' = IF lastOp \in StopOps THEN "stop again" ELSE "stop"
    /\ life' = "stopped"
    /\ runAfterStop' = (pc # "idle" /\ runAfterStop)
    /\ UNCHANGED <<acceptLog, orderGhost,
                   alive, m_port, m_actualPort, m_backlog, sin_port, attempts,
                   clientSocket, pc, sideVars, keptGhost>>

(***************************************************************************)
(* Server::~Server, Server.cpp:23-25                                       *)
(***************************************************************************)
Destroy ==
    /\ alive
    /\ pc = "idle"
    /\ StopBody
    /\ ForgetStart
    /\ alive' = FALSE
    /\ lastOp' = "destroy"
    /\ life' = "stopped"
    /\ runAfterStop' = FALSE
    /\ UNCHANGED <<acceptLog, orderGhost,
                   m_port, m_actualPort, m_backlog, sin_port, attempts,
                   clientSocket, pc, sideVars, keptGhost>>

(***************************************************************************)
(* Server::run, Server.cpp:95-114                                          *)
(***************************************************************************)
RunCall ==
    /\ alive /\ pc = "idle"
    /\ pc' = "loop"
    /\ ForgetStart
    /\ lastOp' = "run"
    /\ runAfterStop' = (life = "stopped")
    /\ UNCHANGED <<life, acceptLog, orderGhost,
                   alive, serverVars, attempts, clientSocket, fds, sideVars,
                   clients, closeCalls, keptGhost>>

\* the loop, had its test come after the body (do ... while)
LoopTestAfterBody ==
    /\ pc = "loop"
    /\ pc' = "accept"
    /\ acceptLog' = "none"
    /\ UNCHANGED <<lifeGhost, orderGhost,
                   alive, serverVars, attempts, clientSocket, fds, sideVars,
                   clients, closeCalls, callGhost, keptGhost, lastOp>>

\* line 98: while (m_running)
LoopTest ==
    /\ pc = "loop"
    /\ pc' = IF m_running THEN "accept" ELSE "idle"
    /\ acceptLog' = "none"
    /\ UNCHANGED <<lifeGhost, orderGhost,
                   alive, serverVars, attempts, clientSocket, fds, sideVars,
                   clients, closeCalls, callGhost, keptGhost, lastOp>>

\* accept, had it taken the connection that came last
DequeueLast(q) == [conn |-> q[Len(q)], rest |-> SubSeq(q, 1, Len(q) - 1)]

\* accept takes the connection that has waited longest
Dequeue(q) == [conn |-> Head(q), rest |-> Tail(q)]

CanAccept ==
    /\ ~orphan.open
    /\ IsOpen(m_serverSocket)
    /\ fds[m_serverSocket].listening
    /\ fds[m_serverSocket].queue # << >>
    /\ FreeFds # {}

\* line 102: accept returns the connection at the head of the queue
AcceptOk ==
    /\ pc = "accept"
    /\ CanAccept
    /\ LET c == Dequeue(fds[m_serverSocket].queue).conn
           fd == LowestFree
       IN /\ fds' = [fds EXCEPT
                       ![m_serverSocket].queue = Dequeue(@).rest,
                       ![fd] = ConnSocket(c)]
          /\ closeCalls' = [closeCalls EXCEPT ![fd] = 0]
          /\ clients' = [clients EXCEPT ![c].state = "accepted"]
          /\ clientSocket' = fd
    /\ pc' = "handle"
    /\ delivered' =
          Append(delivered, Dequeue(fds[m_serverSocket].queue).conn)
    /\ UNCHANGED <<lifeGhost, acceptLog, handled,
                   alive, serverVars, attempts, sideVars, callGhost,
                   keptGhost, lastOp>>

\* a failed accept, had it ended the loop (break for continue, line 108)
AcceptFailEndsRun ==
    /\ pc = "accept"
    /\ ~orphan.open
    /\ clientSocket' = -1
    /\ pc' = "idle"
    /\ acceptLog' = IF m_running THEN "reported" ELSE "silent"
    /\ UNCHANGED <<lifeGhost, orderGhost,
                   alive, serverVars, attempts, fds, sideVars, clients,
                   closeCalls, callGhost, keptGhost, lastOp>>

\* lines 102-109: accept returns -1 (the descriptor is not a listening
\* socket, no descriptor is left, the call is interrupted, ...)
AcceptFail ==
    /\ pc = "accept"
    /\ ~orphan.open
    /\ clientSocket' = -1
    /\ pc' = "loop"
    /\ acceptLog' = IF m_running THEN "reported" ELSE "silent"
    /\ UNCHANGED <<lifeGhost, orderGhost,
                   alive, serverVars, attempts, fds, sideVars, clients,
                   closeCalls, callGhost, keptGhost, lastOp>>

(***************************************************************************)
(* Server::handleClient, Server.cpp:116-136                                *)
(***************************************************************************)
\* what the peer has received after send() returned r
Delivered(buf, r) == IF r < 0 THEN << >> ELSE SubSeq(buf, 1, r)

\* lines 125-132: one send of the whole response
HandleSend ==
    /\ pc = "handle"
    /\ LET c == fds[clientSocket].client
       IN \E r \in SendResults(Strlen(Response)) :
             clients' = [clients EXCEPT
                            ![c].rcvd = @ \o Delivered(Response, r),
                            ![c].sends = @ + 1,
                            ![c].sendLen = Strlen(Response),
                            ![c].sendRet = r]
    /\ pc' = "close"
    /\ handled' = Append(handled, fds[clientSocket].client)
    /\ UNCHANGED <<lifeGhost, acceptLog, delivered,
                   alive, serverVars, attempts, clientSocket, fds, sideVars,
                   closeCalls, callGhost, keptGhost, lastOp>>

\* line 132: the peer has reset the connection and send fails with EPIPE.
\* The flags are 0 (no MSG_NOSIGNAL) and nothing in the program changes the
\* disposition of SIGPIPE, so the signal ends the process: run() does not
\* go on, the system closes every descriptor.
HandleSigpipe ==
    /\ pc = "handle"
    /\ LET c == fds[clientSocket].client
       IN /\ clients' =
                [d \in Clients |->
                    IF d = c
                    THEN [clients[d] EXCEPT !.sends = @ + 1,
                                            !.sendLen = Strlen(Response),
                                            !.sendRet = -1,
                                            !.state = "closed"]
                    ELSE IF clients[d].state = "queued"
                         THEN [clients[d] EXCEPT !.state = "reset"]
                         ELSE clients[d]]
          /\ handled' = Append(handled, c)
    /\ fds' = [fd \in Fds |-> ClosedFd]
    /\ alive' = FALSE
    /\ pc' = "killed"
    /\ UNCHANGED <<lifeGhost, acceptLog, delivered, serverVars, attempts,
                   clientSocket, sideVars, closeCalls, callGhost, keptGhost,
                   lastOp>>

\* lines 134-135: close(clientSocket), back to the loop
HandleClose ==
    /\ pc = "close"
    /\ fds' = CloseFd(fds, clientSocket)
    /\ closeCalls' = CountClose(closeCalls, clientSocket)
    /\ clients' = PeersAfterClose(clients, fds, clientSocket)
    /\ clientSocket' = InvalidSocket
    /\ pc' = "loop"
    /\ UNCHANGED <<lifeGhost, acceptLog, orderGhost,
                   alive, serverVars, attempts, sideVars, callGhost,
                   keptGhost, lastOp>>

(***************************************************************************)
(* The clients.                                                            *)
(***************************************************************************)
\* A client connects to a listening socket of the process and writes its
\* request (possibly nothing).  Clients connect in the order of their names.
ClientConnect ==
    \E c \in Clients, fd \in Fds, data \in Payloads :
        /\ clients[c].state = "new"
        /\ \A d \in Clients : d < c => clients[d].state # "new"
        /\ fds[fd].open /\ fds[fd].listening
        /\ Len(fds[fd].queue) < fds[fd].backlog
        /\ fds' = [fds EXCEPT ![fd].queue = Append(@, c)]
        /\ clients' = [clients EXCEPT ![c].state = "queued",
                                      ![c].sent = data,
                                      ![c].unread = data]
        /\ UNCHANGED <<lifeGhost, acceptLog, orderGhost,
                       alive, serverVars, attempts, clientSocket, pc,
                       sideVars, closeCalls, callGhost, keptGhost, lastOp>>

Next ==
    \/ StartCall
    \/ SocketOk
    \/ SocketFail
    \/ SetsockoptOk
    \/ SetsockoptFail
    \/ BindOk
    \/ BindRetry
    \/ BindExhausted
    \/ ListenOk
    \/ ListenFail
    \/ Stop
    \/ Destroy
    \/ RunCall
    \/ LoopTest
    \/ AcceptOk
    \/ AcceptFail
    \/ HandleSend
    \/ HandleSigpipe
    \/ HandleClose
    \/ ClientConnect

Spec == Init /\ [][Next]_vars

(***************************************************************************)
(* main, main.cpp:11-31, and a second thread that calls Server::stop       *)
(* (Server.cpp:138-145) while the thread of main is inside start() or      *)
(* run().  m_running and m_serverSocket are plain members: the two threads *)
(* read and write them without synchronisation, one statement at a time.   *)
(***************************************************************************)
EXIT_SUCCESS == 0
\* the failure code, had it been the success code
ExitFailureAsSuccess == EXIT_SUCCESS
EXIT_FAILURE == 1

\* main.cpp:13: Server server(8080)
MainInit ==
    /\ Constructed(DefaultPort, DefaultBacklog)
    /\ extPorts \in ExtChoices(DefaultPort)
    /\ clients = Audience(FewClients)
    /\ Fresh

\* main.cpp:15: server.start()
MainStart ==
    /\ exitCode = << >>
    /\ lastOp = "construct"
    /\ StartCall

\* main.cpp:15-23: start() returned true, server.run()
MainRun ==
    /\ exitCode = << >>
    /\ lastOp = "start" /\ startRet = "true"
    /\ RunCall

\* main returns code, from its catch clause or not: the listener goes out
\* of scope, ~Server calls stop()
MainExit(code, fromCatch) ==
    /\ alive
    /\ exitCode = << >>
    /\ StopBody
    /\ ForgetStart
    /\ alive' = FALSE
    /\ pc' = "idle"
    /\ life' = "stopped"
    /\ runAfterStop' = FALSE
    /\ exitCode' = <<code>>
    /\ caught' = fromCatch
    /\ UNCHANGED <<m_port, m_actualPort, m_backlog, sin_port, attempts,
                   clientSocket, extPorts, stopPc, orphan, keptGhost,
                   lastOp, acceptLog, orderGhost>>

\* main.cpp:15-18: start() returned false
MainReturnFailure ==
    /\ pc = "idle" /\ lastOp = "start" /\ startRet = "false"
    /\ MainExit(EXIT_FAILURE, FALSE)

\* main.cpp:23 and 30: run() returned
MainReturnSuccess ==
    /\ pc = "idle" /\ lastOp = "run"
    /\ MainExit(EXIT_SUCCESS, FALSE)

\* The thread of main has just called std::print, which throws when it
\* cannot write: Server.cpp:81 (bound), main.cpp:20-21 (started),
\* Server.cpp:96 (run begins), :122 (connection accepted), :135 (closed).
AfterPrint ==
    \/ pc = "listen"
    \/ pc = "idle" /\ lastOp = "start" /\ startRet = "true"
    \/ pc = "loop" /\ acceptLog = "none"
    \/ pc = "handle"

\* main.cpp:25-28: the exception is caught
MainCatch ==
    /\ AfterPrint
    /\ MainExit(EXIT_FAILURE, TRUE)

\* stop(), line 139, on the second thread
AuxStopCall ==
    /\ alive
    /\ stopPc = "idle"
    /\ m_running' = FALSE
    /\ stopPc' = "test"
    /\ life' = "stopped"
    /\ UNCHANGED <<alive, m_serverSocket, m_port, m_actualPort, m_backlog,
                   sin_port, attempts, clientSocket, pc, fds, extPorts,
                   clients, closeCalls, callGhost, keptGhost, lastOp, orphan,
                   exitCode, caught, runAfterStop, acceptLog, orderGhost>>

\* line 140: if (m_serverSocket >= 0)
AuxStopTest ==
    /\ alive
    /\ stopPc = "test"
    /\ stopPc' = IF m_serverSocket >= 0 THEN "close" ELSE "idle"
    /\ UNCHANGED <<alive, serverVars, attempts, clientSocket, pc, fds,
                   extPorts, clients, closeCalls, callGhost, keptGhost,
                   lastOp, orphan, exitCode, caught, lifeGhost, acceptLog,
                   orderGhost>>

\* the thread of main sleeps in accept on descriptor fd
SleepsOn(fd) ==
    /\ pc = "accept"
    /\ ~orphan.open
    /\ IsOpen(fd) /\ fds[fd].listening /\ fds[fd].queue = << >>

\* line 141: close(m_serverSocket).  When the other thread sleeps in accept
\* on that descriptor, the system either makes its accept fail or lets it
\* sleep on: the descriptor is free again, the socket stays bound and
\* listening until that accept returns.
AuxStopClose ==
    /\ alive
    /\ stopPc = "close"
    /\ fds' = CloseFd(fds, m_serverSocket)
    /\ closeCalls' = CountClose(closeCalls, m_serverSocket)
    /\ clients' = PeersAfterClose(clients, fds, m_serverSocket)
    /\ \/ UNCHANGED orphan
       \/ SleepsOn(m_serverSocket) /\ orphan' = fds[m_serverSocket]
    /\ stopPc' = "invalidate"
    /\ UNCHANGED <<alive, serverVars, attempts, clientSocket, pc, extPorts,
                   callGhost, keptGhost, lastOp, exitCode, caught, lifeGhost,
                   acceptLog, orderGhost>>

\* lines 142-143: m_serverSocket = -1, stop() returns
AuxStopInvalidate ==
    /\ alive
    /\ stopPc = "invalidate"
    /\ m_serverSocket' = InvalidSocket
    /\ stopPc' = "idle"
    /\ UNCHANGED <<alive, m_port, m_actualPort, m_backlog, m_running,
                   sin_port, attempts, clientSocket, pc, fds, extPorts,
                   clients, closeCalls, callGhost, keptGhost, lastOp, orphan,
                   exitCode, caught, lifeGhost, acceptLog, orderGhost>>

\* line 102: the accept that slept on through the close of its descriptor
\* returns the next connection that is made to its socket; the socket is
\* released when it returns.
OrphanAccept ==
    /\ pc = "accept"
    /\ orphan.open
    /\ FreeFds # {}
    /\ \E c \in Clients, data \in Payloads :
          /\ clients[c].state = "new"
          /\ \A d \in Clients : d < c => clients[d].state # "new"
          /\ fds' = [fds EXCEPT ![LowestFree] = ConnSocket(c)]
          /\ closeCalls' = [closeCalls EXCEPT ![LowestFree] = 0]
          /\ clients' = [clients EXCEPT ![c].state = "accepted",
                                        ![c].sent = data,
                                        ![c].unread = data]
          /\ delivered' = Append(delivered, c)
    /\ clientSocket' = LowestFree
    /\ orphan' = ClosedFd
    /\ pc' = "handle"
    /\ UNCHANGED <<alive, serverVars, attempts, extPorts, stopPc, exitCode, caught,
                   callGhost, keptGhost, lastOp, lifeGhost, acceptLog,
                   handled>>

\* accept fails at once: the handle names no listening socket
AcceptError ==
    /\ ~(IsOpen(m_serverSocket) /\ fds[m_serverSocket].listening)
    /\ AcceptFail

\* the steps the thread of main takes when it is scheduled
MainStep ==
    \/ MainStart
    \/ SocketOk \/ SocketFail \/ SetsockoptOk \/ SetsockoptFail
    \/ BindOk \/ BindRetry \/ BindExhausted \/ ListenOk \/ ListenFail
    \/ MainReturnFailure
    \/ MainRun
    \/ LoopTest \/ AcceptOk \/ AcceptError
    \/ HandleSend \/ HandleSigpipe \/ HandleClose
    \/ MainReturnSuccess

\* the steps of a stop() that has been called
AuxStep == AuxStopTest \/ AuxStopClose \/ AuxStopInvalidate

MainNext ==
    \/ MainStart
    \/ SocketOk
    \/ SocketFail
    \/ SetsockoptOk
    \/ SetsockoptFail
    \/ BindOk
    \/ BindRetry
    \/ BindExhausted
    \/ ListenOk
    \/ ListenFail
    \/ MainReturnFailure
    \/ MainRun
    \/ LoopTest
    \/ AcceptOk
    \/ AcceptFail
    \/ OrphanAccept
    \/ HandleSend
    \/ HandleSigpipe
    \/ HandleClose
    \/ MainReturnSuccess
    \/ MainCatch
    \/ AuxStopCall
    \/ AuxStopTest
    \/ AuxStopClose
    \/ AuxStopInvalidate
    \/ ClientConnect

\* Both threads are scheduled again and again; a call that can return does.
MainSpec ==
    MainInit /\ [][MainNext]_vars /\ WF_vars(MainStep) /\ WF_vars(AuxStep)

(***************************************************************************)
(* Properties of start().                                                  *)
(***************************************************************************)
\* port p exists and nobody holds it when the ports occ are in use
PortFree(occ, p) == p \in 1..65535 /\ p \notin occ

\* start() has returned and nothing was called since
StartReturned == pc = "idle" /\ lastOp = "start" /\ startRet # "none"

\* socket(), setsockopt() and listen() did not fail in the last start()
SetupDidNotFail == startFail \notin {"socket", "setsockopt", "listen"}

\* C1: when start() is called on a freshly constructed listener whose
\* requested port P is free, and socket(), setsockopt() and listen() do not
\* fail, start() returns true, getPort() is P and m_running is true.
C1_FreePortStart ==
    (StartReturned /\ startFresh /\ PortFree(startOcc, m_port)
        /\ SetupDidNotFail)
    => (startRet = "true" /\ GetPort = m_port /\ m_running)

C1_Witness ==
    /\ StartReturned /\ startFresh /\ PortFree(startOcc, m_port)
    /\ startRet = "true" /\ bindCalls = 1

\* P..P+9 are all port numbers; the requested port was taken and one of
\* P+1..P+9 was free when the last start() was called
TakenWithFreeNeighbour ==
    /\ m_port >= 1 /\ m_port + CandidateSpan - 1 <= 65535
    /\ ~PortFree(startOcc, m_port)
    /\ \E k \in 1..(CandidateSpan - 1) : PortFree(startOcc, m_port + k)

AllCandidatesTaken ==
    \A k \in 0..(CandidateSpan - 1) :
        BindPorts(startOcc, Htons(m_port + k)) = {}

\* C3 as stated: if P and all of P+1..P+9 are taken, start() returns false
\* after exactly 10 calls of bind.
C3_TenBindCalls ==
    (StartReturned /\ AllCandidatesTaken
        /\ startFail \notin {"socket", "setsockopt"})
    => (startRet = "false" /\ bindCalls = 10)

\* C3 amended: if P and all of P+1..P+9 are taken (and socket() and
\* setsockopt() succeed), start() returns false after exactly 11 calls of
\* bind: the one on P and 10 retries.
C3_ElevenBindCalls ==
    (StartReturned /\ AllCandidatesTaken
        /\ startFail \notin {"socket", "setsockopt"})
    => (startRet = "false" /\ startFail = "bind"
        /\ bindCalls = MaxAttempts + 1)

C3_Witness ==
    /\ StartReturned /\ AllCandidatesTaken /\ startFail = "bind"
    /\ bindCalls = MaxAttempts + 1
    /\ PortFree({}, m_port + CandidateSpan - 1)
(***************************************************************************)
(* Properties of the socket's life: start() that fails, stop().            *)
(***************************************************************************)
\* the sockets made by socket() that are open
OpenSockets == {fd \in Fds : fds[fd].open /\ fds[fd].client = 0}
\* the accepted connections that are open
OpenConns == {fd \in Fds : fds[fd].open /\ fds[fd].client # 0}

\* C4: when start() returns false, the socket it opened is closed, m_running
\* is false and the handle names no open socket.
C4_FailedStartLeavesNothing ==
    (StartReturned /\ startRet = "false")
    => (~IsOpen(startFd) /\ ~m_running /\ ~IsOpen(m_serverSocket))

\* C5: between two calls, the handle is non-negative exactly if the listener
\* holds an open listening socket, and then the handle names it.
C5_HandleIffListening ==
    (alive /\ pc = "idle")
    => /\ m_serverSocket >= 0
          => (IsOpen(m_serverSocket) /\ fds[m_serverSocket].listening)
       /\ (\E fd \in OpenSockets : fds[fd].listening) => m_serverSocket >= 0

\* stop() was the last call, and the last start() before it returned true
StoppedAfterStart == lastOp \in StopOps /\ startRet = "true"

C7_StopTwice ==
    [][(Stop /\ StoppedAfterStart)
        => UNCHANGED <<alive, serverVars, fds, closeCalls, clients, pc>>]_vars

C7_Witness ==
    /\ lastOp = "stop again" /\ startRet = "true"
    /\ closeCalls[startFd] = 1 /\ m_serverSocket = InvalidSocket

\* C8: once stop() or the destructor has run, every socket the listener
\* opened is closed, and close was called on it once.
C8_EverySocketClosedOnce ==
    lastOp \in StopOps \cup {"destroy"}
    => /\ OpenSockets = {}
       /\ \A fd \in Fds : closeCalls[fd] <= 1

(***************************************************************************)
(* Properties of run() and handleClient().                                 *)
(***************************************************************************)
\* the clients whose connection was accepted and then closed
Served == {c \in Clients : clients[c].state = "closed"}

\* C9 as stated: a client whose connection was accepted receives the whole
\* response whatever it sent, and nothing of what it sent is read.
C9_FullResponseReceived ==
    \A c \in Served :
        clients[c].rcvd = Response /\ clients[c].unread = clients[c].sent

\* C9 amended: on an accepted connection the handler reads nothing and
\* calls send once, with the whole response, whatever the client sent; the
\* client receives the whole response if send returns its length, and only
\* the part send reports (nothing when it fails) otherwise.
C9_ResponseSentOnce ==
    \A c \in Served :
        /\ clients[c].sends = 1
        /\ clients[c].sendLen = Len(Response)
        /\ clients[c].unread = clients[c].sent
        /\ clients[c].rcvd = Delivered(Response, clients[c].sendRet)
        /\ clients[c].sendRet = Len(Response) => clients[c].rcvd = Response

C9_Witness ==
    /\ \E c \in Served : clients[c].sent = << >> /\ clients[c].rcvd = Response
    /\ \E c \in Served : clients[c].sent # << >> /\ clients[c].rcvd = Response

\* C10: at most one accepted connection is open, it is the one being
\* handled, and when run() tests its loop or calls accept every connection
\* accepted before has got its send and is closed.
C10_OneConnectionAtATime ==
    /\ Cardinality(OpenConns) <= 1
    /\ \A fd \in OpenConns : pc \in {"handle", "close"} /\ fd = clientSocket
    /\ \A c \in Clients :
          clients[c].state = "accepted"
          => /\ pc \in {"handle", "close"}
             /\ IsOpen(clientSocket)
             /\ fds[clientSocket].client = c
    /\ \A c \in Served : clients[c].sends = 1

C10_Witness ==
    /\ pc = "handle"
    /\ Served # {}
    /\ \E c \in Clients : clients[c].state = "accepted"
    /\ Cardinality(OpenConns) = 1

(***************************************************************************)
(* Properties of the accept loop.                                          *)
(***************************************************************************)
\* C12: when accept fails while m_running is true, the failure is reported,
\* no connection is handled for it and run() is back at its loop test, from
\* where it calls accept again; run() returns only when m_running is false.
C12_AcceptFailureNotFatal ==
    [][/\ (pc = "accept" /\ pc' \notin {"accept", "handle"} /\ m_running)
          => /\ pc' = "loop"
             /\ acceptLog' = "reported"
             /\ UNCHANGED <<fds, clients, delivered, handled, m_running>>
       /\ (pc = "loop" /\ pc' # "loop" /\ m_running) => pc' = "accept"
       /\ (pc \in RunPcs /\ pc' = "idle") => ~m_running]_vars

C12_Witness ==
    /\ pc = "loop" /\ acceptLog = "reported" /\ m_running
    /\ IsOpen(m_serverSocket) /\ fds[m_serverSocket].listening
    /\ handled # << >>

\* the clients that accept has returned before the i-th
Earlier(i) == {delivered[j] : j \in 1..(i - 1)}

\* C15: accept returns the connections in the order they were made, each
\* once; the handler sends to them in that order, to each once, and when a
\* connection is returned every connection returned before it has got its
\* send and is closed; outside the handler none is left unhandled.
C15_ServedInOrder ==
    /\ \A i \in 1..Len(delivered) :
          /\ delivered[i] \notin Earlier(i)
          /\ \A c \in Earlier(i) :
                /\ c < delivered[i]
                /\ clients[c].state = "closed"
                /\ clients[c].sends = 1
    /\ Len(handled) <= Len(delivered)
    /\ \A i \in 1..Len(handled) : handled[i] = delivered[i]
    /\ pc # "handle" => handled = delivered
    /\ pc = "handle" => Len(delivered) = Len(handled) + 1

C15_Witness ==
    /\ pc = "handle"
    /\ Len(delivered) > 1
    /\ Len(handled) = Len(delivered) - 1
    /\ clients[delivered[1]].state = "closed"
    /\ clients[delivered[Len(delivered)]].state = "accepted"

\* C16: a run() called on a stopped listener (stop() was called and no
\* start() since) finds m_running false at its first loop test and returns:
\* it is never at the accept call nor in the handler, and reports nothing.
C16_RunAfterStopReturns ==
    runAfterStop
    => /\ pc \in {"loop", "idle"}
       /\ ~m_running
       /\ acceptLog = "none"

C16_Witness ==
    /\ runAfterStop /\ pc = "idle" /\ lastOp = "run"
    /\ startRet = "true" /\ m_serverSocket = InvalidSocket

\* C18: whatever send returns, the handler goes on to close the connection,
\* once, and run() is back at its loop test with m_running and the handle
\* as they were: the process lives and the next connection can be accepted.
C18_SendFailureIsolated ==
    [][/\ (pc = "handle" /\ pc' # "handle")
          => (pc' = "close" /\ alive' = alive
              /\ UNCHANGED <<m_running, m_serverSocket, clientSocket>>)
       /\ (pc = "close" /\ pc' # "close")
          => (pc' = "loop" /\ alive' = alive
              /\ ~fds'[clientSocket].open
              /\ closeCalls'[clientSocket] = 1
              /\ UNCHANGED <<m_running, m_serverSocket>>)]_vars

(***************************************************************************)
(* Properties of the bind retry and of what run() and stop() leave alone.  *)
(***************************************************************************)
\* C19: bindSocket retries at most MaxAttempts times after the bind on P,
\* one bind call per retry, each on the candidate it has just recorded, so
\* start() makes at most MaxAttempts + 1 bind calls and ends; the recorded
\* port is one of P..P+9 in every state.
C19_BoundedRetryInRange ==
    /\ attempts \in 0..MaxAttempts
    /\ bindCalls <= MaxAttempts + 1
    /\ pc = "bind" => bindCalls = attempts
    /\ (pc = "bind" /\ attempts > 0) => sin_port = Htons(m_actualPort)
    /\ GetPort \in m_port..(m_port + CandidateSpan - 1)

C19_Witness ==
    /\ pc = "bind" /\ attempts = MaxAttempts /\ bindCalls = MaxAttempts
    /\ GetPort = m_port
    /\ m_port \in startOcc

\* the calling thread is inside start()
InStart == pc \in {"createSocket", "setsockopt", "bind", "listen"}

\* C20: no step outside start() (a step of run(), of the handler, of stop()
\* or of the destructor) changes what getPort() returns, the requested
\* port or the backlog, and no step of run() or of the handler changes the
\* handle or m_running.
C20_PortKept ==
    [][/\ (~InStart /\ ~InStart')
          => (GetPort' = GetPort /\ UNCHANGED <<m_port, m_backlog>>)
       /\ (pc' # pc /\ (pc \in RunPcs \/ pc' \in RunPcs))
          => UNCHANGED <<m_serverSocket, m_running>>]_vars

C20_Witness ==
    /\ lastOp \in StopOps /\ pc = "idle" /\ startRet = "true"
    /\ GetPort # m_port /\ GetPort = startPort
    /\ handled # << >>

(***************************************************************************)
(* Properties of the listener's life after stop().                         *)
(***************************************************************************)
\* the handle names an open socket that is bound or listening
HoldsPort ==
    /\ IsOpen(m_serverSocket)
    /\ fds[m_serverSocket].port # 0 \/ fds[m_serverSocket].listening

\* C17 as stated: once stop() has been called, the listener is never bound,
\* listening or running again, whatever is called later.
C17_StoppedIsTerminal == life # "created" => (~m_running /\ ~HoldsPort)

\* C17 amended: after stop(), as long as start() is not called again, the
\* listener is not running, its handle is -1 and it holds no port, whatever
\* run() and stop() calls follow; a listener that runs after a stop() has
\* been started again.
C17_StoppedUntilStart ==
    /\ life = "stopped"
          => (~m_running /\ m_serverSocket = InvalidSocket /\ ~HoldsPort)
    /\ (life # "created" /\ (m_running \/ HoldsPort)) => life = "restarted"

C17_Witness ==
    /\ alive /\ life = "stopped" /\ pc = "idle" /\ lastOp = "run"
    /\ startRet = "true" /\ ~IsOpen(startFd)
    /\ startPort \notin Occupied

(***************************************************************************)
(* Properties of stop() on a second thread (MainSpec).                     *)
(***************************************************************************)
\* the second thread has executed line 139 of stop() while the thread of
\* main is in the accept call of run()
StopMeetsAccept == pc = "accept" /\ stopPc = "test" /\ ~m_running

\* run() is over: it has returned, or the process has ended
RunOver == pc \in {"idle", "killed"}

\* C11: when stop() is called on the second thread while run() is in
\* accept, the accept call returns and run() returns in the end.
C11_StopEndsRun == StopMeetsAccept ~> RunOver

\* start() has returned true, a stop() called on the second thread has
\* returned as well, and nothing else was called
BothReturned ==
    /\ alive /\ pc = "idle" /\ lastOp = "start" /\ startRet = "true"
    /\ stopPc = "idle" /\ life = "stopped"

\* C13: when start() on one thread and stop() on the other have both
\* returned, m_running is true only if the handle names an open listening
\* socket, no open socket is left that the handle does not name, and close
\* was called at most once on each descriptor.
C13_StopStartNoRace ==
    BothReturned
    => /\ m_running
          => (IsOpen(m_serverSocket) /\ fds[m_serverSocket].listening)
       /\ OpenSockets \subseteq {m_serverSocket}
       /\ \A fd \in Fds : closeCalls[fd] <= 1

(***************************************************************************)
(* Properties of main (MainSpec).                                          *)
(***************************************************************************)
\* main has returned
Exited == exitCode # << >>
\* start() returned false
StartFailed == startRet = "false"
\* run() was entered
RunEntered == lastOp = "run"

\* C14 as stated: main returns a non-zero code exactly if start() returned
\* false or an exception was caught before run() was entered; otherwise
\* run() was entered and main returns 0.
C14_ExitCodeTellsStart ==
    Exited
    => /\ exitCode[1] # 0 <=> (StartFailed \/ (caught /\ ~RunEntered))
       /\ ~(StartFailed \/ (caught /\ ~RunEntered))
             => (RunEntered /\ exitCode[1] = 0)

\* C14 amended: main returns a non-zero code exactly if start() returned
\* false or an exception was caught, before run() was entered or inside it;
\* main returns 0 only when start() returned true and run() was entered and
\* has returned.
C14_ExitCodeTellsStartOrCatch ==
    Exited
    => /\ exitCode[1] # 0 <=> (StartFailed \/ caught)
       /\ exitCode[1] = 0 => (startRet = "true" /\ RunEntered /\ ~caught)
       /\ StartFailed => ~RunEntered

C14_Witness ==
    /\ Exited /\ caught /\ RunEntered /\ startRet = "true"
    /\ exitCode[1] # 0 /\ handled # << >>
====
